---- MODULE Spec2Model ----
(***************************************************************************)
(* Model of `bootstrap validate` (cmd/ai-services/cmd/bootstrap.go): the   *)
(* RunE closure of validateCmd and the checks it calls.  Strings are       *)
(* sequences of one-character strings, so that the substring searches,     *)
(* the trimming, the splitting and the integer parsing of validateOS are   *)
(* computed, character by character, as the Go code computes them.         *)
(***************************************************************************)
EXTENDS Integers, Sequences, FiniteSets, TLC

VARIABLES
    euid,              \* os.Geteuid()
    osFile,            \* /etc/os-release: [readable, data]
    podmanRes,         \* the error validators.Podman() returns (NilErr: none)
    goarch,            \* runtime.GOARCH
    cpuFile,           \* /proc/cpuinfo: [readable, data]
    pc,                \* position inside RunE
    validationErrors,  \* the local slice of RunE
    ret,               \* the error RunE returned (meaningful once pc = "done")
    log,               \* the calls made on the logger, in order
    calls,             \* the checks invoked, in order
    reads              \* the files handed to os.ReadFile, in order

vars == <<euid, osFile, podmanRes, goarch, cpuFile, pc, validationErrors, ret,
          log, calls, reads>>

hostFacts == <<euid, osFile, podmanRes, goarch, cpuFile>>

-----------------------------------------------------------------------------
(* Bounds of the host facts explored.                                       *)

MaxEuid == 1
MaxMajor == 10
MaxMinor == 10

-----------------------------------------------------------------------------
(* String literals of the source.                                           *)

S_RedHatEnterpriseLinux ==
    <<"R","e","d"," ","H","a","t"," ","E","n","t","e","r","p","r","i","s","e"," ","L","i","n","u","x">>
S_IDQuotedRhel ==
    <<"I","D","=","\"","r","h","e","l","\"">>
S_IDRhel ==
    <<"I","D","=","r","h","e","l">>
S_VERSION_ID ==
    <<"V","E","R","S","I","O","N","_","I","D","=">>
S_POWER11 ==
    <<"P","O","W","E","R","1","1">>
S_ppc64le == "ppc64le"
OsReleasePath == "/etc/os-release"
CpuInfoPath == "/proc/cpuinfo"

-----------------------------------------------------------------------------
(* Error values.  kind is the fixed part of the message, arg the text      *)
(* formatted into it, n the number formatted into it.                       *)

Err(kind, arg, n) == [kind |-> kind, arg |-> arg, n |-> n]
NilErr == Err("nil", <<>>, 0)

RootErr == Err("root privileges are required to run this command", <<>>, 0)
ReadFileErr(path) == Err("open: cannot read file", <<path>>, 0)
UnsupportedOSErr ==
    Err("unsupported operating system: only RHEL is supported", <<>>, 0)
UnableVersionErr == Err("unable to determine OS version", <<>>, 0)
UnsupportedVersionErr(version) ==
    Err("unsupported RHEL version: %s. Minimum required version is 9.6", version, 0)
PodmanWrapErr(e) == Err("podman validation failed: %w", <<e.kind>>, 0)
UnsupportedArchErr(arch) ==
    Err("unsupported architecture: %s. IBM Power architecture (ppc64le) is required",
        <<arch>>, 0)
UnsupportedPowerErr ==
    Err("unsupported IBM Power version: POWER11 is required", <<>>, 0)
AggregateErr(n) == Err("%d validation check(s) failed", <<>>, n)

-----------------------------------------------------------------------------
(* The logger: every call is recorded; the sink keeps Info and above.       *)

LogLine(level, text, idx, e) ==
    [level |-> level, text |-> text, idx |-> idx, err |-> e]
Debug(text) == LogLine("debug", text, 0, NilErr)
Info(text) == LogLine("info", text, 0, NilErr)
Error(text) == LogLine("error", text, 0, NilErr)

LevelRank(level) == CASE level = "debug" -> 0 [] level = "info" -> 1 [] OTHER -> 2
LoggerLevel == "info"
Enabled(line) == LevelRank(line.level) >= LevelRank(LoggerLevel)
Emitted(lines) == SelectSeq(lines, Enabled)

-----------------------------------------------------------------------------
(* The Go library calls of the checks, on character sequences.  Indexes    *)
(* returned are Go's (0-based, -1 when absent).                             *)

\* s[i:] and s[:j] with Go's 0-based bounds
SliceFrom(s, i) == SubSeq(s, i + 1, Len(s))
SliceTo(s, j) == SubSeq(s, 1, j)

HasAt(s, sub, i) == SubSeq(s, i + 1, i + Len(sub)) = sub

Contains(s, sub) == \E i \in 0..(Len(s) - Len(sub)) : HasAt(s, sub, i)

Index(s, sub) ==
    IF Contains(s, sub)
    THEN CHOOSE i \in 0..(Len(s) - Len(sub)) :
            /\ HasAt(s, sub, i)
            /\ \A j \in 0..(i - 1) : ~HasAt(s, sub, j)
    ELSE -1

IndexByte(s, c) == Index(s, <<c>>)

RECURSIVE TrimLeft(_, _)
TrimLeft(s, cutset) ==
    IF s # <<>> /\ Head(s) \in cutset THEN TrimLeft(Tail(s), cutset) ELSE s

RECURSIVE TrimRight(_, _)
TrimRight(s, cutset) ==
    IF s # <<>> /\ s[Len(s)] \in cutset
    THEN TrimRight(SubSeq(s, 1, Len(s) - 1), cutset)
    ELSE s

Trim(s, cutset) == TrimRight(TrimLeft(s, cutset), cutset)

RECURSIVE Split(_, _)
Split(s, sep) ==
    LET i == IndexByte(s, sep)
    IN  IF i = -1 THEN <<s>>
        ELSE <<SliceTo(s, i)>> \o Split(SliceFrom(s, i + 1), sep)

Digits == <<"0","1","2","3","4","5","6","7","8","9">>
IsDigit(c) == \E d \in 1..10 : Digits[d] = c
DigitVal(c) == (CHOOSE d \in 1..10 : Digits[d] = c) - 1

RECURSIVE DecimalVal(_, _)
DecimalVal(s, n) ==
    IF s = <<>> THEN n ELSE DecimalVal(Tail(s), n * 10 + DigitVal(Head(s)))

\* strconv.Atoi on strings shorter than 19 bytes (no range error can occur):
\* an optional sign, then at least one digit and only digits; 0 on a syntax error.
Atoi(s) ==
    LET signed == s # <<>> /\ Head(s) \in {"-", "+"}
        body == IF signed THEN Tail(s) ELSE s
        ok == body # <<>> /\ \A i \in 1..Len(body) : IsDigit(body[i])
        mag == IF ok THEN DecimalVal(body, 0) ELSE 0
    IN  [val |-> IF signed /\ Head(s) = "-" THEN 0 - mag ELSE mag, ok |-> ok]

-----------------------------------------------------------------------------
(* The checks.  Each returns its error (NilErr: passed), the logger calls  *)
(* it made and the files it read.                                           *)

Outcome(e, logs, files) == [err |-> e, logs |-> logs, reads |-> files]

rootCheck(uid) ==
    IF uid = 0
    THEN Outcome(NilErr, <<Debug("Current user is root.")>>, <<>>)
    ELSE Outcome(RootErr,
                 <<Error("Current user is not root."), Debug("Effective User ID")>>,
                 <<>>)

isRHEL(osInfo) ==
    \/ Contains(osInfo, S_RedHatEnterpriseLinux)
    \/ Contains(osInfo, S_IDQuotedRhel)
    \/ Contains(osInfo, S_IDRhel)

\* the text after the first "VERSION_ID=", up to the end of its line, with
\* surrounding double quotes trimmed (idx is the index of "VERSION_ID=")
versionText(osInfo, idx) ==
    LET rest == SliceFrom(osInfo, idx + Len(S_VERSION_ID))
        end == IndexByte(rest, "\n")
    IN  Trim(IF end # -1 THEN SliceTo(rest, end) ELSE rest, {"\""})

versionMajor(version) == Atoi(Split(version, ".")[1]).val

versionMinor(version) ==
    LET parts == Split(version, ".")
    IN  IF Len(parts) > 1 THEN Atoi(parts[2]).val ELSE 0

belowMinimum(major, minor) == major < 9 \/ (major = 9 /\ minor < 6)

\* validateOSVersion reporting a missing "VERSION_ID=" as an empty version
\* below the minimum
validateOSVersionNoAbsent(osInfo) ==
    LET idx == Index(osInfo, S_VERSION_ID)
        version == IF idx = -1 THEN <<>> ELSE versionText(osInfo, idx)
    IN  IF belowMinimum(versionMajor(version), versionMinor(version))
        THEN UnsupportedVersionErr(version)
        ELSE NilErr

\* validateOS after the file was read and found to be RHEL's
validateOSVersion(osInfo) ==
    LET idx == Index(osInfo, S_VERSION_ID)
    IN  IF idx = -1 THEN UnableVersionErr
        ELSE LET version == versionText(osInfo, idx)
             IN  IF belowMinimum(versionMajor(version), versionMinor(version))
                 THEN UnsupportedVersionErr(version)
                 ELSE NilErr

validateOSContent(osInfo) ==
    IF ~isRHEL(osInfo) THEN UnsupportedOSErr ELSE validateOSVersion(osInfo)

validateOS(file) ==
    LET e == IF ~file.readable THEN ReadFileErr(OsReleasePath)
             ELSE validateOSContent(file.data)
    IN  Outcome(e,
                <<Debug("Validating operating system...")>>
                   \o (IF e = NilErr THEN <<Debug("Operating system is RHEL")>> ELSE <<>>),
                <<OsReleasePath>>)

validateRHNRegistration ==
    Outcome(NilErr, <<Debug("Validating RHN registration...")>>, <<>>)

validateLTCRPMRepo ==
    Outcome(NilErr, <<Debug("Validating LTC RPM repository...")>>, <<>>)

\* validatePowerVersion looking for POWER11 in /proc/cpuinfo before it looks at
\* the architecture
validatePowerVersionCpuFirst(arch, file) ==
    IF ~(file.readable /\ Contains(file.data, S_POWER11))
    THEN Outcome(UnsupportedPowerErr,
                 <<Debug("Validating IBM Power version...")>>, <<CpuInfoPath>>)
    ELSE IF arch # S_ppc64le
         THEN Outcome(UnsupportedArchErr(arch),
                      <<Debug("Validating IBM Power version...")>>, <<CpuInfoPath>>)
         ELSE Outcome(NilErr,
                      <<Debug("Validating IBM Power version..."),
                        Debug("System is running on IBM POWER11 architecture")>>,
                      <<CpuInfoPath>>)

validatePowerVersion(arch, file) ==
    IF arch # S_ppc64le
    THEN Outcome(UnsupportedArchErr(arch),
                 <<Debug("Validating IBM Power version...")>>, <<>>)
    ELSE IF file.readable /\ Contains(file.data, S_POWER11)
         THEN Outcome(NilErr,
                      <<Debug("Validating IBM Power version..."),
                        Debug("System is running on IBM POWER11 architecture")>>,
                      <<CpuInfoPath>>)
         ELSE Outcome(UnsupportedPowerErr,
                      <<Debug("Validating IBM Power version...")>>,
                      <<CpuInfoPath>>)

\* validateRHAIISLicense finding no license
validateRHAIISLicenseFails ==
    Outcome(Err("no valid RHAIIS license found", <<>>, 0),
            <<Debug("Validating RHAIIS license...")>>, <<>>)

validateRHAIISLicense ==
    Outcome(NilErr, <<Debug("Validating RHAIIS license...")>>, <<>>)

-----------------------------------------------------------------------------
(* Host facts explored: release files put together from lines, in either   *)
(* order, with and without a final newline; version texts printed from     *)
(* numbers, so that two-digit components occur, plus malformed ones.        *)

RECURSIVE Itoa(_)
Itoa(n) == IF n < 10 THEN <<Digits[n + 1]>> ELSE Itoa(n \div 10) \o <<Digits[(n % 10) + 1]>>

Majors == 8..MaxMajor
Minors == 0..MaxMinor

WellFormedVersions ==
    {Itoa(M) : M \in Majors} \cup {Itoa(M) \o <<".">> \o Itoa(m) : M \in Majors, m \in Minors}

MalformedVersions ==
    { <<>>,
      <<"1","0",".","x">>,
      <<"9",".","x">>,
      <<"x",".","7">>,
      <<"9",".","6",".","1">>,
      <<"9",".","5",".","9">> }

Quoted(v) == <<"\"">> \o v \o <<"\"">>

VersionLines ==
    {S_VERSION_ID \o Quoted(v) : v \in WellFormedVersions \cup MalformedVersions}
        \cup {S_VERSION_ID \o v : v \in {<<"9",".","6">>, <<"9",".","5">>, <<"1","0">>}}

L_NameRhel == <<"N","A","M","E","=">> \o Quoted(S_RedHatEnterpriseLinux)
L_IDCentos == <<"I","D","=">> \o Quoted(<<"c","e","n","t","o","s">>)
L_IDUbuntu == <<"I","D","=","u","b","u","n","t","u">>
L_SupportProduct ==
    <<"R","E","D","H","A","T","_","S","U","P","P","O","R","T","_","P","R","O","D","U","C","T","=">>
        \o Quoted(S_RedHatEnterpriseLinux \o <<" ","1","0">>)

\* the distribution part of a release file: the lines that name the distribution
DistParts ==
    { <<>>,
      <<L_NameRhel>>,
      <<S_IDQuotedRhel>>,
      <<S_IDRhel>>,
      <<L_IDCentos>>,
      <<L_IDUbuntu>>,
      <<L_IDCentos, L_SupportProduct>> }

RECURSIVE JoinLines(_)
JoinLines(lines) ==
    IF lines = <<>> THEN <<>> ELSE Head(lines) \o <<"\n">> \o JoinLines(Tail(lines))

ReleaseContents ==
    {JoinLines(d) : d \in DistParts}
        \cup {JoinLines(d \o <<v>>) : d \in DistParts, v \in VersionLines}
        \cup {JoinLines(<<v>> \o d) : d \in DistParts \ {<<>>}, v \in VersionLines}
        \cup {JoinLines(d) \o v : d \in {<<S_IDQuotedRhel>>, <<L_IDUbuntu>>}, v \in VersionLines}

Unreadable == [readable |-> FALSE, data |-> <<>>]
Readable(data) == [readable |-> TRUE, data |-> data]

OsFiles == {Unreadable} \cup {Readable(c) : c \in ReleaseContents}

CpuContents ==
    { <<"c","p","u"," ",":"," ">> \o S_POWER11 \o <<"\n">>,
      <<"c","p","u"," ",":"," ","P","O","W","E","R","1","0","\n">> }

CpuFiles == {Unreadable} \cup {Readable(c) : c \in CpuContents}

PodmanResults == {NilErr, Err("podman is not installed", <<>>, 0)}

Archs == {S_ppc64le, "amd64"}

-----------------------------------------------------------------------------
(* RunE of validateCmd, one action per statement.                           *)

Init ==
    /\ euid \in 0..MaxEuid
    /\ osFile \in OsFiles
    /\ podmanRes \in PodmanResults
    /\ goarch \in Archs
    /\ cpuFile \in CpuFiles
    /\ pc = "start"
    /\ validationErrors = <<>>
    /\ ret = NilErr
    /\ log = <<>>
    /\ calls = <<>>
    /\ reads = <<>>

\* Record putting the new error in front
RecordPrepend(errs, e) == IF e # NilErr THEN <<e>> \o errs ELSE errs

\* validationErrors = append(validationErrors, err), under `if err != nil`
Record(errs, e) == IF e # NilErr THEN Append(errs, e) ELSE errs

\* a check whose error is recorded: call it, record, go on to the next statement
RunCheck(name, outcome, next) ==
    /\ calls' = Append(calls, name)
    /\ log' = log \o outcome.logs
    /\ reads' = reads \o outcome.reads
    /\ validationErrors' = Record(validationErrors, outcome.err)
    /\ pc' = next
    /\ UNCHANGED <<ret, hostFacts>>

RunEStart ==
    /\ pc = "start"
    /\ log' = Append(log, Info("Running bootstrap validation..."))
    /\ validationErrors' = <<>>
    /\ pc' = "root"
    /\ UNCHANGED <<ret, calls, reads, hostFacts>>

\* RootStep going on to the next check when rootCheck failed
RootStepNoReturn ==
    /\ pc = "root"
    /\ LET r == rootCheck(euid)
       IN  /\ calls' = Append(calls, "rootCheck")
           /\ log' = log \o r.logs
           /\ pc' = "os"
    /\ UNCHANGED <<ret, validationErrors, reads, hostFacts>>

RootStep ==
    /\ pc = "root"
    /\ LET r == rootCheck(euid)
       IN  /\ calls' = Append(calls, "rootCheck")
           /\ log' = log \o r.logs
           /\ ret' = r.err
           /\ pc' = IF r.err # NilErr THEN "done" ELSE "os"
    /\ UNCHANGED <<validationErrors, reads, hostFacts>>

\* OSStep returning the error of validateOS from RunE
OSStepFatal ==
    /\ pc = "os"
    /\ LET r == validateOS(osFile)
       IN  /\ calls' = Append(calls, "validateOS")
           /\ log' = log \o r.logs
           /\ reads' = reads \o r.reads
           /\ ret' = r.err
           /\ pc' = IF r.err # NilErr THEN "done" ELSE "rhn"
    /\ UNCHANGED <<validationErrors, hostFacts>>

OSStep == pc = "os" /\ RunCheck("validateOS", validateOS(osFile), "rhn")

RHNStep ==
    pc = "rhn" /\ RunCheck("validateRHNRegistration", validateRHNRegistration, "ltc")

LTCStep == pc = "ltc" /\ RunCheck("validateLTCRPMRepo", validateLTCRPMRepo, "podman")

\* validators.Podman() and the wrapping of its error
podmanCheck(res) ==
    IF res # NilErr
    THEN Outcome(PodmanWrapErr(res), <<Debug("Podman validation failed")>>, <<>>)
    ELSE Outcome(NilErr, <<Debug("Podman validation passed")>>, <<>>)

\* PodmanStep ending the run when the validator failed
PodmanStepReturns ==
    /\ pc = "podman"
    /\ LET r == podmanCheck(podmanRes)
       IN  /\ calls' = Append(calls, "validators.Podman")
           /\ log' = log \o r.logs
           /\ validationErrors' = Record(validationErrors, r.err)
           /\ ret' = IF r.err # NilErr THEN AggregateErr(Len(validationErrors) + 1) ELSE ret
           /\ pc' = IF r.err # NilErr THEN "done" ELSE "power"
    /\ UNCHANGED <<reads, hostFacts>>

PodmanStep == pc = "podman" /\ RunCheck("validators.Podman", podmanCheck(podmanRes), "power")

PowerStep ==
    pc = "power"
        /\ RunCheck("validatePowerVersion", validatePowerVersion(goarch, cpuFile), "license")

LicenseStep ==
    pc = "license" /\ RunCheck("validateRHAIISLicense", validateRHAIISLicense, "report")

\* the line logged for validationErrors[i], i the 0-based index of the range loop
EnumLine(i, e) == LogLine("error", "  %d. %s", i + 1, e)

ReportLines(errs) ==
    <<Error("Validation failed with errors:")>>
        \o [k \in 1..Len(errs) |-> EnumLine(k - 1, errs[k])]

\* Report with `len(validationErrors) > 1` for its test
ReportOffByOne ==
    /\ pc = "report"
    /\ IF Len(validationErrors) > 1
       THEN /\ log' = log \o ReportLines(validationErrors)
            /\ ret' = AggregateErr(Len(validationErrors))
       ELSE /\ log' = Append(log, Info("All validations passed"))
            /\ ret' = NilErr
    /\ pc' = "done"
    /\ UNCHANGED <<validationErrors, calls, reads, hostFacts>>

Report ==
    /\ pc = "report"
    /\ IF Len(validationErrors) > 0
       THEN /\ log' = log \o ReportLines(validationErrors)
            /\ ret' = AggregateErr(Len(validationErrors))
       ELSE /\ log' = Append(log, Info("All validations passed"))
            /\ ret' = NilErr
    /\ pc' = "done"
    /\ UNCHANGED <<validationErrors, calls, reads, hostFacts>>

Next ==
    \/ RunEStart
    \/ RootStep
    \/ OSStep
    \/ RHNStep
    \/ LTCStep
    \/ PodmanStep
    \/ PowerStep
    \/ LicenseStep
    \/ Report

Spec == Init /\ [][Next]_vars

-----------------------------------------------------------------------------
(* Vocabulary of the properties.                                            *)

Done == pc = "done"
IsRoot == euid = 0

CheckOrder ==
    <<"rootCheck", "validateOS", "validateRHNRegistration", "validateLTCRPMRepo",
      "validators.Podman", "validatePowerVersion", "validateRHAIISLicense">>

IsPrefix(s, t) == Len(s) <= Len(t) /\ SubSeq(t, 1, Len(s)) = s

\* the check `name` has returned
Called(name) == \E i \in 1..Len(calls) : calls[i] = name

Failed(e) == e # NilErr

\* what each recorded check answers on the host facts of this run, in order
Answers ==
    <<validateOS(osFile).err, validateRHNRegistration.err, validateLTCRPMRepo.err,
      podmanCheck(podmanRes).err, validatePowerVersion(goarch, cpuFile).err,
      validateRHAIISLicense.err>>

Failures == SelectSeq(Answers, Failed)

AllChecksPass == IsRoot /\ Failures = <<>>

IsEnumLine(line) == line.level = "error" /\ line.idx > 0
EnumLines == SelectSeq(Emitted(log), IsEnumLine)

\* the log enumerates exactly the messages of errs, numbered from 1, in order
Enumerates(errs) ==
    /\ Len(EnumLines) = Len(errs)
    /\ \A i \in 1..Len(errs) : EnumLines[i].idx = i /\ EnumLines[i].err = errs[i]

Occurrences(errs, e) == Cardinality({i \in 1..Len(errs) : errs[i] = e})

Scenario(lines) == Readable(JoinLines(lines))
Quoted96 == S_VERSION_ID \o Quoted(<<"9",".","6">>)
Quoted90 == S_VERSION_ID \o Quoted(<<"9",".","0">>)
Power11File == Readable(<<"c","p","u"," ",":"," ">> \o S_POWER11 \o <<"\n">>)

-----------------------------------------------------------------------------
\* C1 (as stated): a finished run returns no error iff every check passes, and
\* otherwise returns the aggregate failure with the count of the failed checks,
\* their messages having been enumerated in order.
C1_AsStated ==
    Done =>
        /\ (ret = NilErr <=> AllChecksPass)
        /\ (~AllChecksPass =>
                ret = AggregateErr(Len(Failures)) /\ Enumerates(Failures))

\* C1 (amended): a finished run returns no error iff every check passes; when
\* the privilege check passed and another check failed it returns the aggregate
\* failure with the count of the failed checks, their messages having been
\* enumerated in order; when the privilege check failed it returns the privilege
\* error, which is no aggregate failure.
C1_Outcome ==
    Done =>
        /\ (ret = NilErr <=> AllChecksPass)
        /\ (IsRoot /\ ~AllChecksPass =>
                ret = AggregateErr(Len(Failures)) /\ Enumerates(Failures))
        /\ (~IsRoot => ret = RootErr /\ ret.kind # AggregateErr(0).kind)

C1_Witness ==
    /\ Done /\ IsRoot /\ ret = NilErr
    /\ osFile = Scenario(<<S_IDQuotedRhel, Quoted96>>)
    /\ podmanRes = NilErr /\ goarch = S_ppc64le /\ cpuFile = Power11File
    /\ Emitted(log)[Len(Emitted(log))] = Info("All validations passed")

-----------------------------------------------------------------------------
\* C2: when the effective uid is not 0 the run ends right after the privilege
\* check: no other check is called, no file is read, nothing is recorded, the
\* only log lines are RunE's first line and the privilege check's, and the error
\* returned is the privilege error, not the aggregate failure.
C2_PrivilegeHalts ==
    ~IsRoot =>
        /\ pc \in {"start", "root", "done"}
        /\ IsPrefix(calls, <<"rootCheck">>)
        /\ reads = <<>> /\ validationErrors = <<>>
        /\ (Done =>
              /\ ret = RootErr
              /\ ret.kind # AggregateErr(0).kind
              /\ calls = <<"rootCheck">>
              /\ log = <<Info("Running bootstrap validation..."),
                         Error("Current user is not root."),
                         Debug("Effective User ID")>>)

C2_Witness == Done /\ ~IsRoot /\ ret = RootErr

-----------------------------------------------------------------------------
\* C3: the checks are called in the fixed order, none twice; when the privilege
\* check passed, a finished run has called each of the six others exactly once,
\* whichever of them failed.
C3_FixedOrder ==
    /\ IsPrefix(calls, CheckOrder)
    /\ (Done /\ IsRoot => calls = CheckOrder)

C3_Witness ==
    /\ Done /\ IsRoot /\ calls = CheckOrder
    /\ Failed(Answers[1]) /\ Failed(Answers[4]) /\ Failed(Answers[5])

-----------------------------------------------------------------------------
\* C4: at the end of a run whose privilege check passed, the report holds one
\* entry per failed check, in the order of the checks; a non-empty report gives
\* an aggregate failure whose count is the number of failed checks and log lines
\* numbered 1, 2, ... carrying the entries in that order.  A version below the
\* minimum together with a missing container runtime give exactly two entries,
\* the version failure first.
MixedFailures ==
    /\ osFile = Scenario(<<S_IDQuotedRhel, Quoted90>>)
    /\ podmanRes # NilErr /\ goarch = S_ppc64le /\ cpuFile = Power11File

C4_Report ==
    Done /\ IsRoot =>
        /\ validationErrors = Failures
        /\ (validationErrors # <<>> =>
                ret.n = Len(validationErrors) /\ Enumerates(validationErrors))
        /\ (validationErrors = <<>> => EnumLines = <<>>)
        /\ (MixedFailures =>
                validationErrors =
                    <<UnsupportedVersionErr(<<"9",".","0">>), PodmanWrapErr(podmanRes)>>)

C4_Witness == Done /\ IsRoot /\ MixedFailures /\ ret = AggregateErr(2)

-----------------------------------------------------------------------------
(* Vocabulary of the properties of the distribution/version check.  At     *)
(* pc = "rhn" the check has just returned and the report holds its entry,  *)
(* if it failed.                                                            *)

OSReturned == pc = "rhn" /\ osFile.readable

HasMarker(osInfo) ==
    \E m \in {S_RedHatEnterpriseLinux, S_IDQuotedRhel, S_IDRhel} : Contains(osInfo, m)

HasVersionField(osInfo) == Contains(osInfo, S_VERSION_ID)

VersionValue(osInfo) == versionText(osInfo, Index(osInfo, S_VERSION_ID))

AllDigits(s) == s # <<>> /\ \A i \in 1..Len(s) : IsDigit(s[i])

\* v is an integer, or two integers separated by a dot
TwoIntegers(v) ==
    LET parts == Split(v, ".")
    IN  Len(parts) \in {1, 2} /\ \A i \in 1..Len(parts) : AllDigits(parts[i])

\* for such a v: major > 9, or major = 9 and minor >= 6, minor 0 when absent
AtLeast96(v) ==
    LET parts == Split(v, ".")
        major == DecimalVal(parts[1], 0)
        minor == IF Len(parts) = 2 THEN DecimalVal(parts[2], 0) ELSE 0
    IN  major > 9 \/ (major = 9 /\ minor >= 6)

\* the value of the ID field of a release file names another distribution
IDValues(osInfo) ==
    LET lines == Split(osInfo, "\n")
    IN  {Trim(SliceFrom(lines[i], 3), {"\""}) :
            i \in {j \in 1..Len(lines) : IsPrefix(<<"I","D","=">>, lines[j])}}

NamesOtherDistribution(osInfo) ==
    \E id \in IDValues(osInfo) : id # <<"r","h","e","l">>

VersionKind == UnsupportedVersionErr(<<>>).kind

-----------------------------------------------------------------------------
\* C5: for a release file that identifies the supported distribution and has a
\* VERSION_ID field, the check passes iff the version is an integer or two
\* dot-separated integers with major > 9, or major = 9 and minor >= 6.
C5_AsStated ==
    OSReturned /\ HasMarker(osFile.data) /\ HasVersionField(osFile.data) =>
        (validationErrors = <<>> <=>
            TwoIntegers(VersionValue(osFile.data)) /\ AtLeast96(VersionValue(osFile.data)))

-----------------------------------------------------------------------------
\* C6: the check accepts a release file that contains one of the three markers
\* of the supported distribution, rejects as an unsupported operating system
\* every file that contains none, and never accepts a file whose ID field names
\* another distribution.
C6_AsStated ==
    OSReturned =>
        /\ (HasMarker(osFile.data) => validationErrors # <<UnsupportedOSErr>>)
        /\ (~HasMarker(osFile.data) => validationErrors = <<UnsupportedOSErr>>)
        /\ (NamesOtherDistribution(osFile.data) => validationErrors = <<UnsupportedOSErr>>)

-----------------------------------------------------------------------------
\* C7: the check has three failures with three different messages: no marker
\* of the distribution, no "VERSION_ID=" in a file of the distribution, and a
\* version below the minimum.  A file without "VERSION_ID=" never passes and is
\* never reported as a version below the minimum; when it is of the supported
\* distribution it is reported as "unable to determine OS version".  Each of
\* the three is recorded and the run goes on to the end of the sequence.
C7_ThreeFailures ==
    /\ Cardinality({UnsupportedOSErr.kind, UnableVersionErr.kind, VersionKind}) = 3
    /\ (OSReturned =>
          /\ Len(validationErrors) <= 1
          /\ (~HasMarker(osFile.data) => validationErrors = <<UnsupportedOSErr>>)
          /\ (~HasVersionField(osFile.data) =>
                /\ validationErrors # <<>>
                /\ validationErrors[1].kind # VersionKind
                /\ (HasMarker(osFile.data) => validationErrors = <<UnableVersionErr>>))
          /\ (HasMarker(osFile.data) /\ HasVersionField(osFile.data) =>
                validationErrors \in
                    {<<>>, <<UnsupportedVersionErr(VersionValue(osFile.data))>>}))
    /\ (Done /\ IsRoot /\ osFile.readable /\ Failed(Answers[1]) =>
            calls = CheckOrder /\ validationErrors[1] = Answers[1])

C7_Witness ==
    /\ Done /\ IsRoot /\ calls = CheckOrder
    /\ osFile = Scenario(<<S_IDRhel>>)
    /\ validationErrors[1] = UnableVersionErr

-----------------------------------------------------------------------------
\* C8: the CPU check passes iff the architecture is ppc64le and /proc/cpuinfo
\* is readable and contains POWER11.  On another architecture it records the
\* "unsupported architecture" failure and /proc/cpuinfo is not read; on ppc64le
\* with an unreadable file or one without POWER11 it records the different
\* "unsupported IBM Power version" failure.  Neither ends the run: the license
\* check is the next call.
PowerKinds == {UnsupportedArchErr("").kind, UnsupportedPowerErr.kind}
IsPowerEntry(e) == e.kind \in PowerKinds
PowerEntries == SelectSeq(validationErrors, IsPowerEntry)
Power11Present == cpuFile.readable /\ Contains(cpuFile.data, S_POWER11)

C8_CpuCheck ==
    /\ Cardinality(PowerKinds) = 2
    /\ (~Called("validatePowerVersion") => CpuInfoPath \notin {reads[i] : i \in 1..Len(reads)})
    /\ (Called("validatePowerVersion") =>
          /\ pc \in {"license", "report", "done"}
          /\ (PowerEntries = <<>> <=> goarch = S_ppc64le /\ Power11Present)
          /\ (goarch # S_ppc64le =>
                /\ PowerEntries = <<UnsupportedArchErr(goarch)>>
                /\ Occurrences(reads, CpuInfoPath) = 0)
          /\ (goarch = S_ppc64le /\ ~Power11Present =>
                /\ PowerEntries = <<UnsupportedPowerErr>>
                /\ Occurrences(reads, CpuInfoPath) = 1))
    /\ (Done /\ IsRoot =>
            SubSeq(calls, Len(calls) - 1, Len(calls)) =
                <<"validatePowerVersion", "validateRHAIISLicense">>)

C8_Witness ==
    /\ Done /\ goarch = S_ppc64le /\ ~cpuFile.readable
    /\ PowerEntries = <<UnsupportedPowerErr>>
    /\ calls[Len(calls)] = "validateRHAIISLicense"

-----------------------------------------------------------------------------
\* C9: an unreadable /etc/os-release, an unreadable /proc/cpuinfo and an error
\* of the container-runtime validator each put exactly one entry in the report
\* and do not end the run; a finished run that did not call every check is a
\* run whose privilege check failed, and no error other than the privilege
\* error and the aggregate failure is ever returned.
C9_IOFailuresRecorded ==
    /\ (Called("validateOS") /\ ~osFile.readable =>
            /\ Occurrences(validationErrors, ReadFileErr(OsReleasePath)) = 1
            /\ validationErrors[1] = ReadFileErr(OsReleasePath))
    /\ (Called("validators.Podman") /\ podmanRes # NilErr =>
            Occurrences(validationErrors, PodmanWrapErr(podmanRes)) = 1)
    /\ (Called("validatePowerVersion") /\ goarch = S_ppc64le /\ ~cpuFile.readable =>
            Occurrences(validationErrors, UnsupportedPowerErr) = 1)
    /\ (Done /\ calls # CheckOrder => ~IsRoot /\ ret = RootErr)
    /\ (Done /\ IsRoot => ret \in {NilErr, AggregateErr(Len(validationErrors))})

C9_Witness ==
    /\ Done /\ IsRoot /\ calls = CheckOrder
    /\ ~osFile.readable /\ ~cpuFile.readable /\ goarch = S_ppc64le /\ podmanRes # NilErr
    /\ validationErrors =
          <<ReadFileErr(OsReleasePath), PodmanWrapErr(podmanRes), UnsupportedPowerErr>>

-----------------------------------------------------------------------------
\* C10: the registration, repository and license checks never fail: every entry
\* of the report is a failure of the OS/version, container-runtime or CPU check,
\* the report never holds more entries than the number of those three that were
\* called, and the count of an aggregate failure is between 1 and 3.
RealChecks == {"validateOS", "validators.Podman", "validatePowerVersion"}

RealKinds ==
    {ReadFileErr("").kind, UnsupportedOSErr.kind, UnableVersionErr.kind, VersionKind,
     PodmanWrapErr(NilErr).kind} \cup PowerKinds

C10_StubsPass ==
    /\ \A i \in 1..Len(validationErrors) : validationErrors[i].kind \in RealKinds
    /\ Len(validationErrors) <= Cardinality({i \in 1..Len(calls) : calls[i] \in RealChecks})
    /\ (Done /\ IsRoot /\ ret # NilErr =>
            ret.kind = AggregateErr(0).kind /\ ret.n \in 1..3)

C10_Witness ==
    /\ Done /\ ret = AggregateErr(3)
    /\ Called("validateRHNRegistration") /\ Called("validateLTCRPMRepo")
    /\ Called("validateRHAIISLicense")

=============================================================================
